---- MODULE Spec2Model ----
(***************************************************************************)
(* A model of ext/repo_apk.c (libsolv): the gzip stream adapter            *)
(* (apkz_open / apkz_read / apkz_reset / apkz_close), the archive          *)
(* ingestion repo_add_apk_pkg and the index ingestion apk_process_index /  *)
(* repo_add_apk_repo.                                                      *)
(*                                                                         *)
(* Granularity.  A compressed file is a sequence of units.  A gzip member  *)
(* (one "segment") is  hdr, dat(v1) .. dat(vn), end : the header, one unit *)
(* per decompressed token, and the trailer.  A unit "bad" is corrupt data: *)
(* inflate consumes it and reports Z_DATA_ERROR.  A decompressed token is  *)
(* a byte of payload (adapter harness), a tar entry header or one text     *)
(* line of an entry body (ingestion).  Text is a sequence of one-character *)
(* strings, so prefixes are compared the way strncmp compares them.        *)
(***************************************************************************)
EXTENDS Integers, Sequences, FiniteSets, TLC

VARIABLES
  pc,      \* position of the running call ("idle": no call has started)
  file,    \* the file behind the descriptor: [raw, segs, chunk, ioat, fail]
  z,       \* struct zstream (NoZ when none is allocated)
  h,       \* what the caller of the adapter has observed (harness)
  fp,      \* the stdio FILE the tar reader reads from
  th,      \* struct tarhead
  loc,     \* locals of repo_add_apk_pkg / apk_process_index
  pool,    \* Pool and Repo: strings, rels, solvables, attrs, errors
  res,     \* resources: descriptor, decompressor state, adapter memory
  ret      \* return value of the call (read once pc = "done")

vars == <<pc, file, z, h, fp, th, loc, pool, res, ret>>

---------------------------------------------------------------------------
(* Bounds of the model *)

\* most segments in a container read through the adapter harness
MaxSegs == 3
\* most decompressed tokens in one harness segment
MaxSegLen == 2
\* most units one read() of the descriptor returns (stands for the 65536 of buf)
RawBuf == 2
\* largest caller buffer handed to apkz_read by the harness
MaxLen == 2

---------------------------------------------------------------------------
(* Small helpers *)

Min(a, b) == IF a < b THEN a ELSE b

RECURSIVE Flatten(_)
Flatten(ss) == IF ss = <<>> THEN <<>> ELSE Head(ss) \o Flatten(Tail(ss))

IsPrefix(p, s) == Len(p) <= Len(s) /\ SubSeq(s, 1, Len(p)) = p

Drop(s, n) == SubSeq(s, n + 1, Len(s))

---------------------------------------------------------------------------
(* Compressed units and zlib's inflate *)

Hdr == [t |-> "hdr"]
End == [t |-> "end"]
Bad == [t |-> "bad"]
Dat(v) == [t |-> "dat", v |-> v]

\* one gzip member holding the tokens of content
Compress(content) ==
  <<Hdr>> \o [i \in 1..Len(content) |-> Dat(content[i])] \o <<End>>

\* inflate(&zs, Z_NO_FLUSH): consumes input while it can make progress.
\* mode: "head" (after inflateInit2 / inflateReset), "body", "done", "bad".
\* The result code is Z_BUF_ERROR when no progress was possible.
RECURSIVE inflate_run(_, _, _, _, _)
inflate_run(mode, in, out, avail_out, progress) ==
  LET stop(r) == [mode |-> mode, avail_in |-> in, out |-> out, r |-> r]
      idle == stop(IF progress THEN "Z_OK" ELSE "Z_BUF_ERROR")
  IN  IF mode = "bad" THEN stop("Z_DATA_ERROR")
      ELSE IF mode = "done" THEN stop("Z_STREAM_END")
      ELSE IF in = <<>> THEN idle
      ELSE LET u == Head(in) IN
        IF mode = "head"
        THEN IF u.t = "hdr"
             THEN inflate_run("body", Tail(in), out, avail_out, TRUE)
             ELSE [mode |-> "bad", avail_in |-> Tail(in), out |-> out,
                   r |-> "Z_DATA_ERROR"]
        ELSE \* body
          IF u.t = "dat"
          THEN IF avail_out = 0 THEN idle
               ELSE inflate_run("body", Tail(in), Append(out, u.v),
                                avail_out - 1, TRUE)
          ELSE IF u.t = "end"
          THEN [mode |-> "done", avail_in |-> Tail(in), out |-> out,
                r |-> "Z_STREAM_END"]
          ELSE [mode |-> "bad", avail_in |-> Tail(in), out |-> out,
                r |-> "Z_DATA_ERROR"]

inflate(mode, in, avail_out) == inflate_run(mode, in, <<>>, avail_out, FALSE)

---------------------------------------------------------------------------
(* The file descriptor *)

\* read(fd, buf, sizeof(buf)) at file offset pos: rr and the units read.
\* file.ioat: the offsets at which the device fails the read (EIO)
read(pos) ==
  IF pos \in file.ioat
  THEN [rr |-> -1, data |-> <<>>]
  ELSE LET n == Min(file.chunk, Len(file.raw) - pos)
       IN  [rr |-> n, data |-> SubSeq(file.raw, pos + 1, pos + n)]

---------------------------------------------------------------------------
(* struct zstream and the adapter *)

NoZ == [alloc |-> FALSE]

\* the struct as apkz_open leaves it: solv_calloc zeroes it, inflateInit2
\* puts the decompressor at the start of a stream
NewZ == [alloc |-> TRUE, pos |-> 0, eof |-> 0, zmode |-> "head",
         avail_in |-> <<>>, readcb |-> FALSE]

\* apkz_read's for(;;) loop, in the order of the code: the refill of an
\* empty input buffer (lines 77-86), inflate (87-88), the callback (90-95)
\* and the four exits (97-107).  out: what was produced into buf so far;
\* eof: the local flag; cb: the calls made to readcb so far; nr: read() calls
RECURSIVE apkz_read_loop(_, _, _, _, _, _)

\* a variant of the exits below that hands the callback all of the buffered input
apkz_read_exits_all(z1, len, out, eof, cb, nr, inf) ==
  LET cb2 == IF inf.r \in {"Z_OK", "Z_STREAM_END"} /\ z1.readcb
                  /\ Len(inf.avail_in) < Len(z1.avail_in)
             THEN Append(cb, z1.avail_in)
             ELSE cb
      z2 == [z1 EXCEPT !.zmode = inf.mode, !.avail_in = inf.avail_in]
      done(zz, r) == [z |-> zz, ret |-> r, out |-> out \o inf.out,
                      cb |-> cb2, reads |-> nr]
  IN  IF inf.r = "Z_STREAM_END"
      THEN done([z2 EXCEPT !.eof = 1], Len(out \o inf.out))
      ELSE IF inf.r # "Z_OK" THEN done(z2, -1)
      ELSE IF Len(out \o inf.out) = len THEN done(z2, len)
      ELSE IF eof = 1 THEN done(z2, -1)
      ELSE apkz_read_loop(z2, len, out \o inf.out, eof, cb2, nr)

\* a variant of the exits below that returns what was produced so far when
\* inflate can make no progress
apkz_read_exits_short(z1, len, out, eof, cb, nr, inf) ==
  LET l == Len(z1.avail_in) - Len(inf.avail_in)
      cb2 == IF inf.r \in {"Z_OK", "Z_STREAM_END"} /\ z1.readcb /\ l > 0
             THEN Append(cb, SubSeq(z1.avail_in, 1, l))
             ELSE cb
      z2 == [z1 EXCEPT !.zmode = inf.mode, !.avail_in = inf.avail_in]
      out2 == out \o inf.out
      done(zz, r) == [z |-> zz, ret |-> r, out |-> out2, cb |-> cb2,
                      reads |-> nr]
  IN  IF inf.r = "Z_STREAM_END" THEN done([z2 EXCEPT !.eof = 1], Len(out2))
      ELSE IF inf.r = "Z_BUF_ERROR" THEN done(z2, Len(out2))
      ELSE IF inf.r # "Z_OK" THEN done(z2, -1)
      ELSE IF Len(out2) = len THEN done(z2, len)
      ELSE IF eof = 1 THEN done(z2, -1)
      ELSE apkz_read_loop(z2, len, out2, eof, cb2, nr)

apkz_read_exits(z1, len, out, eof, cb, nr, inf) ==
  LET l == Len(z1.avail_in) - Len(inf.avail_in)
      cb2 == IF inf.r \in {"Z_OK", "Z_STREAM_END"} /\ z1.readcb /\ l > 0
             THEN Append(cb, SubSeq(z1.avail_in, 1, l))
             ELSE cb
      z2 == [z1 EXCEPT !.zmode = inf.mode, !.avail_in = inf.avail_in]
      out2 == out \o inf.out
      done(zz, r) == [z |-> zz, ret |-> r, out |-> out2, cb |-> cb2,
                      reads |-> nr]
  IN  IF inf.r = "Z_STREAM_END" THEN done([z2 EXCEPT !.eof = 1], Len(out2))
      ELSE IF inf.r # "Z_OK" THEN done(z2, -1)
      ELSE IF Len(out2) = len THEN done(z2, len)
      ELSE IF eof = 1 THEN done(z2, -1)
      ELSE apkz_read_loop(z2, len, out2, eof, cb2, nr)

apkz_read_inflate(z1, len, out, eof, cb, nr) ==
  apkz_read_exits(z1, len, out, eof, cb, nr,
                  inflate(z1.zmode, z1.avail_in, len - Len(out)))

apkz_read_fill(zs, len, out, eof, cb, nr, r1) ==
  IF r1.rr < 0
  THEN [z |-> zs, ret |-> r1.rr, out |-> out, cb |-> cb, reads |-> nr + 1]
  ELSE apkz_read_inflate(
         [zs EXCEPT !.avail_in = r1.data, !.pos = @ + r1.rr],
         len, out, IF r1.rr = 0 THEN 1 ELSE eof, cb, nr + 1)

apkz_read_loop(zs, len, out, eof, cb, nr) ==
  IF zs.avail_in = <<>>
  THEN apkz_read_fill(zs, len, out, eof, cb, nr, read(zs.pos))
  ELSE apkz_read_inflate(zs, len, out, eof, cb, nr)

\* a variant of apkz_read without the early return on eof
apkz_read_again(zs, len) ==
  IF ~zs.alloc
  THEN [z |-> zs, ret |-> -1, out |-> <<>>, cb |-> <<>>, reads |-> 0]
  ELSE apkz_read_loop(zs, len, <<>>, 0, <<>>, 0)

\* ssize_t apkz_read(void *cookie, char *buf, size_t len)
apkz_read(zs, len) ==
  IF ~zs.alloc
  THEN [z |-> zs, ret |-> -1, out |-> <<>>, cb |-> <<>>, reads |-> 0]
  ELSE IF zs.eof # 0
  THEN [z |-> zs, ret |-> 0, out |-> <<>>, cb |-> <<>>, reads |-> 0]
  ELSE apkz_read_loop(zs, len, <<>>, 0, <<>>, 0)

\* a variant of apkz_reset that reads afresh whatever is still buffered
apkz_reset_drop(zs) ==
  IF read(zs.pos).rr <= 0
  THEN [z |-> [zs EXCEPT !.eof = 0, !.avail_in = <<>>],
        ret |-> IF read(zs.pos).rr < 0 THEN -1 ELSE 0]
  ELSE [z |-> [zs EXCEPT !.eof = 0, !.avail_in = read(zs.pos).data,
                         !.pos = @ + read(zs.pos).rr, !.zmode = "head"],
        ret |-> 1]

\* int apkz_reset(struct zstream *zstream)
apkz_reset(zs) ==
  LET z0 == [zs EXCEPT !.eof = 0]
      r1 == read(z0.pos)
  IN  IF z0.avail_in = <<>> /\ r1.rr <= 0
      THEN [z |-> z0, ret |-> IF r1.rr < 0 THEN -1 ELSE 0]
      ELSE LET z1 == IF z0.avail_in = <<>>
                     THEN [z0 EXCEPT !.avail_in = r1.data, !.pos = @ + r1.rr]
                     ELSE z0
           IN  [z |-> [z1 EXCEPT !.zmode = "head"], ret |-> 1]

\* resources held on behalf of one call
NoRes == [fd |-> "none", closes |-> 0, zalloc |-> 0, zfree |-> 0,
          zinit |-> 0, zend |-> 0, badfree |-> 0]

\* struct zstream *apkz_open(int fd).  When inflateInit2 fails the code calls
\* solv_free(&zstream->zs): the address of a member at a non-zero offset of
\* the calloc'ed block, not the block, so the block stays allocated and free()
\* is handed a pointer malloc never returned
apkz_open(rs, initfails) ==
  IF initfails
  THEN [z |-> NoZ,
        res |-> [rs EXCEPT !.zalloc = @ + 1, !.badfree = @ + 1]]
  ELSE [z |-> NewZ,
        res |-> [rs EXCEPT !.zalloc = @ + 1, !.zinit = @ + 1]]

\* int apkz_close(void *cookie): inflateEnd, close(fd), solv_free(zstream)
apkz_close(zs, rs) ==
  [z |-> NoZ,
   res |-> [rs EXCEPT !.zend = @ + 1, !.closes = @ + 1, !.fd = "closed",
                      !.zfree = @ + 1]]

---------------------------------------------------------------------------
(* State outside the adapter, as it is before any call *)

NoFp == [open |-> FALSE, src |-> "none", buf |-> <<>>, eof |-> FALSE,
         err |-> FALSE]
NoTh == [eof |-> FALSE, type |-> 0, path |-> "", length |-> 0, left |-> 0]
NoChk == [on |-> FALSE, data |-> <<>>]
NoRecs == [solvables |-> <<>>, attrs |-> <<>>]
\* the locals of the running call, and what the call started from: pre is
\* the repository when the call began, snap the repository just before the
\* call last opened a record, nlines the lines of .PKGINFO handled so far
NoLoc == [call |-> "none", flags |-> {}, s |-> 0, haveorigin |-> 0,
          q1chk |-> NoChk, pkgidchk |-> NoChk, drained |-> "no",
          nlines |-> 0, input |-> <<>>, pre |-> NoRecs, snap |-> NoRecs]
NoH == [outs |-> <<>>, cur |-> <<>>, rets |-> <<>>, called |-> FALSE,
        last |-> 0, reads |-> 0, fresh |-> TRUE, cbseg |-> 0, cbs |-> <<>>,
        ateof |-> FALSE]

---------------------------------------------------------------------------
(* Pool, Repo and Repodata (pool.h, repo.h: outside this file) *)

ID_EMPTY == 1
ARCH_NOARCH == 2

REL_GT == {"GT"}
REL_EQ == {"EQ"}
REL_LT == {"LT"}
REL_AND == {"AND"}

\* the string table: strings[id] is the text of id; id 1 is the empty string
EmptyPool == [strings |-> << <<>>, <<"n", "o", "a", "r", "c", "h">> >>, rels |-> <<>>, solvables |-> <<>>,
              attrs |-> <<>>, errors |-> <<>>]

\* Id pool_str2id(pool, str, 1): the id of str, interned on first use
StrId(p, str) ==
  IF \E i \in 1..Len(p.strings) : p.strings[i] = str
  THEN CHOOSE i \in 1..Len(p.strings) : p.strings[i] = str
  ELSE Len(p.strings) + 1

pool_str2id(p, str) ==
  [pool |-> IF StrId(p, str) > Len(p.strings)
            THEN [p EXCEPT !.strings = Append(@, str)]
            ELSE p,
   id |-> StrId(p, str)]

pool_id2str(p, id) == p.strings[id]

\* Id pool_rel2id(pool, name, evr, flags, 1): relation ids are the negative ids
RelId(p, r) ==
  IF \E i \in 1..Len(p.rels) : p.rels[i] = r
  THEN CHOOSE i \in 1..Len(p.rels) : p.rels[i] = r
  ELSE Len(p.rels) + 1

pool_rel2id(p, name, evr, flags) ==
  LET r == [name |-> name, evr |-> evr, flags |-> flags]
  IN  [pool |-> IF RelId(p, r) > Len(p.rels)
                THEN [p EXCEPT !.rels = Append(@, r)]
                ELSE p,
       id |-> 0 - RelId(p, r)]

\* void pool_error(pool, -1, fmt, ...)
pool_error(p, msg) == [p EXCEPT !.errors = Append(@, msg)]

NoAttr == [t |-> "none"]
VoidAttr == [t |-> "void"]
IdAttr(id) == [t |-> "id", id |-> id]
StrAttr(str) == [t |-> "str", s |-> str]
NumAttr(n) == [t |-> "num", n |-> n]
ChkAttr(type, bytes) == [t |-> "chk", type |-> type, bytes |-> bytes]

\* strtoull(str, 0, 10): the value of the leading decimal digits
Digits == <<"0", "1", "2", "3", "4", "5", "6", "7", "8", "9">>
RECURSIVE strtoull_from(_, _)
strtoull_from(str, acc) ==
  IF str = <<>> \/ ~(\E d \in 1..10 : Digits[d] = Head(str)) THEN acc
  ELSE strtoull_from(Tail(str),
                     acc * 10 + (CHOOSE d \in 1..10 : Digits[d] = Head(str)) - 1)
strtoull(str) == strtoull_from(str, 0)

\* a Solvable as pool_add_solvable leaves it (memset to 0), and its attributes
NewSolvable == [repo |-> TRUE, name |-> 0, evr |-> 0, arch |-> 0,
                provides |-> <<>>, requires |-> <<>>, conflicts |-> <<>>,
                supplements |-> <<>>]
NoAttrs == [summary |-> NoAttr, description |-> NoAttr, url |-> NoAttr,
            buildtime |-> NoAttr, packager |-> NoAttr, installsize |-> NoAttr,
            license |-> <<>>, sourcename |-> NoAttr, hdrid |-> NoAttr,
            pkgid |-> NoAttr, location |-> NoAttr]

\* Id repo_add_solvable(repo): a new record at the end; its handle
repo_add_solvable(p) ==
  [pool |-> [p EXCEPT !.solvables = Append(@, NewSolvable),
                      !.attrs = Append(@, NoAttrs)],
   id |-> Len(p.solvables) + 1]

\* repo_free_solvable(repo, handle, 1) / solvable_free(s, 1): the last record
\* is taken off the end with its attributes (its handle is reused); any other
\* record is cleared and leaves the repo
repo_free_solvable(p, handle) ==
  IF handle = Len(p.solvables)
  THEN [p EXCEPT !.solvables = SubSeq(@, 1, handle - 1),
                 !.attrs = SubSeq(@, 1, handle - 1)]
  ELSE [p EXCEPT !.solvables[handle] = [NewSolvable EXCEPT !.repo = FALSE],
                 !.attrs[handle] = NoAttrs]

\* Offset repo_addid_dep(repo, olddeps, id, 0): id goes to the end of the list
repo_addid_dep(olddeps, id) == Append(olddeps, id)

\* repodata_set_void / _id / _str / _num / _bin_checksum: the last write of
\* a key wins
repodata_set(p, handle, key, val) ==
  [p EXCEPT !.attrs[handle] = [@ EXCEPT ![key] = val]]

\* repodata_add_poolstr_array: one more string of an array attribute
repodata_add(p, handle, key, str) ==
  [p EXCEPT !.attrs[handle] = [@ EXCEPT ![key] = Append(@, str)]]

---------------------------------------------------------------------------
(* Containers for the adapter harness *)

\* decompressed token j of segment i: every token of a container is distinct
Byte(i, j) == [k |-> "b", seg |-> i, n |-> j]

SegContent(i, n) == [j \in 1..n |-> Byte(i, j)]

\* the container whose segment i holds lens[i] tokens
Container(lens) == [i \in 1..Len(lens) |-> Compress(SegContent(i, lens[i]))]

SegLens == UNION {[1..n -> 0..MaxSegLen] : n \in 1..MaxSegs}

\* a file: the container as built (segs), the bytes the descriptor delivers
\* (raw: segs, cut short or with one unit corrupted), read()'s chunk size
CleanFile(segs, chunk) ==
  [segs |-> segs, raw |-> Flatten(segs), chunk |-> chunk, ioat |-> {},
   fault |-> "none", openfails |-> FALSE, initfails |-> FALSE,
   cookiefails |-> FALSE]

Truncated(f, n) ==
  [f EXCEPT !.raw = SubSeq(f.raw, 1, n), !.fault = "trunc"]

Corrupted(f, i) ==
  [f EXCEPT !.raw = [f.raw EXCEPT ![i] = Bad], !.fault = "bad"]

IoError(f, at) == [f EXCEPT !.ioat = {at}, !.fault = "io"]

Faulty(f) ==
  {Truncated(f, n) : n \in 0..(Len(f.raw) - 1)}
    \cup {Corrupted(f, i) : i \in 1..Len(f.raw)}
    \cup {IoError(f, at) : at \in 0..Len(f.raw)}

HarnessFiles ==
  LET clean == {CleanFile(Container(lens), c) :
                  lens \in SegLens, c \in 1..RawBuf}
  IN  clean \cup UNION {{Truncated(f, n) : n \in 0..(Len(f.raw) - 1)} :
                          f \in clean}

------------------------------------------------------------------------
(* The adapter driven directly: open, read each segment to its end, reset *)

InitZ ==
  /\ pc = "zidle"
  /\ file \in HarnessFiles
  /\ z = NoZ
  /\ h = NoH
  /\ fp = NoFp
  /\ th = NoTh
  /\ loc = NoLoc
  /\ pool = EmptyPool
  /\ res = NoRes
  /\ ret = 0

ZOpen ==
  /\ pc = "zidle"
  /\ LET o == apkz_open([res EXCEPT !.fd = "open"], file.initfails)
     IN  /\ z' = o.z
         /\ res' = o.res
  /\ pc' = "zrun"
  /\ UNCHANGED <<file, h, fp, th, loc, pool, ret>>

\* register a callback before the first read of a segment
ZSetCb ==
  /\ pc = "zrun"
  /\ h.fresh
  /\ ~z.readcb
  /\ z' = [z EXCEPT !.readcb = TRUE]
  /\ h' = [h EXCEPT !.cbseg = Len(h.rets) + 1]
  /\ UNCHANGED <<pc, file, fp, th, loc, pool, res, ret>>

ZRead(len) ==
  /\ pc = "zrun"
  /\ LET r == apkz_read(z, len)
     IN  /\ z' = r.z
         /\ h' = [h EXCEPT !.cur = IF r.ret > 0
                                    THEN @ \o SubSeq(r.out, 1, r.ret)
                                    ELSE @,
                           !.called = TRUE,
                           !.last = r.ret,
                           !.reads = r.reads,
                           !.fresh = FALSE,
                           !.cbs = @ \o r.cb,
                           !.ateof = z.eof # 0]
  /\ UNCHANGED <<pc, file, fp, th, loc, pool, res, ret>>

\* the caller moves to the next segment once a read has returned 0
ZReset ==
  /\ pc = "zrun"
  /\ h.called /\ h.last = 0
  /\ LET r == apkz_reset(z)
     IN  /\ z' = r.z
         /\ h' = [h EXCEPT !.outs = Append(@, h.cur),
                           !.cur = <<>>,
                           !.rets = Append(@, r.ret),
                           !.called = FALSE,
                           !.fresh = TRUE,
                           !.ateof = FALSE]
         /\ pc' = IF r.ret = 1 THEN "zrun" ELSE "zend"
  /\ UNCHANGED <<file, fp, th, loc, pool, res, ret>>

ZClose ==
  /\ pc = "zend"
  /\ LET c == apkz_close(z, res)
     IN  /\ z' = c.z
         /\ res' = c.res
  /\ pc' = "zclosed"
  /\ UNCHANGED <<file, h, fp, th, loc, pool, ret>>

NextZ ==
  \/ ZOpen
  \/ ZSetCb
  \/ \E len \in 1..MaxLen : ZRead(len)
  \/ ZReset
  \/ ZClose

SpecZ == InitZ /\ [][NextZ]_vars

---------------------------------------------------------------------------
(* add_deps: one dependency line *)

IsBlank(c) == c \in {" ", "\t"}

RECURSIVE SkipBlanks(_)
SkipBlanks(t) == IF t # <<>> /\ IsBlank(Head(t)) THEN SkipBlanks(Tail(t)) ELSE t

\* length of the longest prefix of t whose characters are all outside stop
RECURSIVE SpanOutside(_, _)
SpanOutside(t, stop) ==
  IF t = <<>> \/ Head(t) \in stop THEN 0 ELSE 1 + SpanOutside(Tail(t), stop)

\* the for loop over '<', '>', '=': how far it gets, and the flags it collects
RECURSIVE OpLen(_)
OpLen(t) ==
  IF t # <<>> /\ Head(t) \in {"<", ">", "="} THEN 1 + OpLen(Tail(t)) ELSE 0

OpFlags(t) ==
  (IF \E i \in 1..OpLen(t) : t[i] = "<" THEN REL_LT ELSE {})
    \cup (IF \E i \in 1..OpLen(t) : t[i] = ">" THEN REL_GT ELSE {})
    \cup (IF \E i \in 1..OpLen(t) : t[i] = "=" THEN REL_EQ ELSE {})

\* the while (*p) loop, one atom per round, in stages: the name (lines
\* 138-149), the operator and the version (150-169), the list the id goes
\* to (170-177).  sup: the local supplements
RECURSIVE add_deps_loop(_, _, _, _, _)

add_deps_and(ia, handle, oldwhat, rest) ==
  add_deps_loop(ia.pool, handle, oldwhat, rest, ia.id)

add_deps_put(p2, id, handle, oldwhat, what, rest, sup) ==
  IF what = "SOLVABLE_PROVIDES"
  THEN add_deps_loop([p2 EXCEPT !.solvables[handle].provides =
                                   repo_addid_dep(@, id)],
                     handle, oldwhat, rest, sup)
  ELSE IF what = "SOLVABLE_REQUIRES"
  THEN add_deps_loop([p2 EXCEPT !.solvables[handle].requires =
                                   repo_addid_dep(@, id)],
                     handle, oldwhat, rest, sup)
  ELSE IF what = "SOLVABLE_CONFLICTS"
  THEN add_deps_loop([p2 EXCEPT !.solvables[handle].conflicts =
                                   repo_addid_dep(@, id)],
                     handle, oldwhat, rest, sup)
  ELSE IF what = "SOLVABLE_SUPPLEMENTS" /\ sup # 0
  THEN add_deps_and(pool_rel2id(p2, id, sup, REL_AND), handle, oldwhat, rest)
  ELSE IF what = "SOLVABLE_SUPPLEMENTS"
  THEN add_deps_loop(p2, handle, oldwhat, rest, id)
  ELSE add_deps_loop(p2, handle, oldwhat, rest, sup)

add_deps_rel(ir, handle, oldwhat, what, rest, sup) ==
  add_deps_put(ir.pool, ir.id, handle, oldwhat, what, rest, sup)

add_deps_ver(iv, name, flags, handle, oldwhat, what, rest, sup) ==
  add_deps_rel(pool_rel2id(iv.pool, name, iv.id, flags),
               handle, oldwhat, what, rest, sup)

\* po: the text from the end of the name on
add_deps_op(i1, po, handle, oldwhat, what, sup) ==
  LET pv == Drop(po, OpLen(po))
      flags == OpFlags(po)
                 \cup (IF pv # <<>> /\ Head(pv) = "~" THEN REL_EQ ELSE {})
      vl == SpanOutside(pv, {" ", "\t"})
  IN  IF flags # {}
      THEN add_deps_ver(pool_str2id(i1.pool, SubSeq(pv, 1, vl)), i1.id, flags,
                        handle, oldwhat, what, Drop(pv, vl), sup)
      ELSE add_deps_put(i1.pool, i1.id, handle, oldwhat, what, pv, sup)

\* a variant of add_deps_name: '!' is taken off on a line of any kind
add_deps_name_any(p, t1, handle, oldwhat, sup) ==
  LET neg == t1 # <<>> /\ Head(t1) = "!"
      what == IF neg THEN "SOLVABLE_CONFLICTS" ELSE oldwhat
      pn == IF neg THEN Tail(t1) ELSE t1
      nl == SpanOutside(pn, {" ", "\t", "<", ">", "=", "~"})
  IN  add_deps_op(pool_str2id(p, SubSeq(pn, 1, nl)), Drop(pn, nl),
                  handle, oldwhat, what, sup)
\* t1: the text after the leading blanks
add_deps_name(p, t1, handle, oldwhat, sup) ==
  LET neg == oldwhat = "SOLVABLE_REQUIRES" /\ t1 # <<>> /\ Head(t1) = "!"
      what == IF neg THEN "SOLVABLE_CONFLICTS" ELSE oldwhat
      pn == IF neg THEN Tail(t1) ELSE t1
      nl == SpanOutside(pn, {" ", "\t", "<", ">", "=", "~"})
  IN  add_deps_op(pool_str2id(p, SubSeq(pn, 1, nl)), Drop(pn, nl),
                  handle, oldwhat, what, sup)

add_deps_loop(p, handle, oldwhat, text, sup) ==
  IF text = <<>>
  THEN IF sup # 0
       THEN [p EXCEPT !.solvables[handle].supplements = repo_addid_dep(@, sup)]
       ELSE p
  ELSE add_deps_name(p, SkipBlanks(text), handle, oldwhat, sup)

\* static void add_deps(Repo *repo, Solvable *s, Id what, char *p)
add_deps(p, handle, what, text) == add_deps_loop(p, handle, what, text, 0)

---------------------------------------------------------------------------
(* apk_add_hdrid: the checksum token of an index C: line *)

B64 == <<"A", "B", "C", "D", "E", "F", "G", "H", "I", "J", "K", "L", "M",
        "N", "O", "P", "Q", "R", "S", "T", "U", "V", "W", "X", "Y", "Z",
        "a", "b", "c", "d", "e", "f", "g", "h", "i", "j", "k", "l", "m",
        "n", "o", "p", "q", "r", "s", "t", "u", "v", "w", "x", "y", "z",
        "0", "1", "2", "3", "4", "5", "6", "7", "8", "9", "+", "/">>

\* a variant of B64Val: the value of each character is one too high
B64Val_off(c) == (CHOOSE i \in 1..Len(B64) : B64[i] = c) % 64
B64Val(c) == (CHOOSE i \in 1..Len(B64) : B64[i] = c) - 1

\* the decoding loop from position i (0-based) with accumulator v and the
\* bytes written so far; "bad" when a character is rejected
RECURSIVE hdrid_decode(_, _, _, _, _)
hdrid_decode(body, xpos, i, v, cp) ==
  IF i >= Len(body) THEN [ok |-> TRUE, bytes |-> cp]
  ELSE
    LET c == body[i + 1]
        isalpha == \E k \in 1..Len(B64) : B64[k] = c
        ispad == c = "=" /\ i = xpos
        x == IF isalpha THEN B64Val(c) ELSE 0
        v2 == v * 64 + x
        cp2 == IF i % 4 = 3
               THEN cp \o <<(v2 \div 65536) % 256, (v2 \div 256) % 256>>
                       \o (IF i # xpos THEN <<v2 % 256>> ELSE <<>>)
               ELSE cp
    IN  IF ~isalpha /\ ~ispad THEN [ok |-> FALSE, bytes |-> cp]
        ELSE hdrid_decode(body, xpos, i + 1, IF i % 4 = 3 THEN 0 ELSE v2, cp2)

\* idstr[i] of the C string: the terminating NUL when i is its length
CharAt(str, i) == IF i < Len(str) THEN str[i + 1] ELSE "NUL"

apk_add_hdrid_set(p, handle, l, d) ==
  IF d.ok
  THEN repodata_set(p, handle, "hdrid",
                    IF l = 28
                    THEN ChkAttr("REPOKEY_TYPE_SHA1", SubSeq(d.bytes, 1, 20))
                    ELSE ChkAttr("REPOKEY_TYPE_SHA256", SubSeq(d.bytes, 1, 32)))
  ELSE p

\* static void apk_add_hdrid(Repodata *data, Id p, char *idstr)
apk_add_hdrid(p, handle, idstr) ==
  LET l == Len(idstr)
      c0 == CharAt(idstr, 0)
      c1 == IF l = 0 THEN "NUL" ELSE CharAt(idstr, 1)
      accepted == \/ (l = 30 \/ l = 46) /\ c0 = "Q" /\ c1 = "1"
                  \/ c1 = "2" /\ l = 46
      xpos == IF c1 = "2" THEN 43 ELSE 27
  IN  IF accepted
      THEN apk_add_hdrid_set(p, handle, l - 2,
                             hdrid_decode(Drop(idstr, 2), xpos, 0, 0, <<>>))
      ELSE p

---------------------------------------------------------------------------
(* stdio over the adapter (solv_cookieopen) and the tar reader (tarhead.h) *)

\* tokens one fill of the FILE's buffer asks apkz_read for
BufSz == 2

\* an io is the FILE, the zstream behind it and the bytes fed to readcb's
\* checksum (q1).  The FILE refills its empty buffer with one apkz_read;
\* 0 sets its end-of-file indicator, -1 its error indicator.  A FILE that is
\* not a cookie (src "mem") holds all it will ever deliver
fp_filled(io, r) ==
  [io EXCEPT !.z = r.z,
             !.q1 = @ \o Flatten(r.cb),
             !.fp.buf = IF r.ret > 0 THEN SubSeq(r.out, 1, r.ret) ELSE @,
             !.fp.eof = IF r.ret = 0 THEN TRUE ELSE @,
             !.fp.err = IF r.ret < 0 THEN TRUE ELSE @]

fp_fill(io) ==
  IF io.fp.src # "z" THEN [io EXCEPT !.fp.eof = TRUE]
  ELSE fp_filled(io, apkz_read(io.z, BufSz))

\* one token from the FILE: st is "ok", "eof" or "err"
fgettok_from(io1) ==
  IF io1.fp.buf # <<>>
  THEN [io |-> [io1 EXCEPT !.fp.buf = Tail(@)], st |-> "ok",
        tok |-> Head(io1.fp.buf)]
  ELSE [io |-> io1, st |-> IF io1.fp.err THEN "err" ELSE "eof",
        tok |-> [k |-> "none"]]

fgettok(io) ==
  IF io.fp.buf = <<>> /\ ~io.fp.eof /\ ~io.fp.err
  THEN fgettok_from(fp_fill(io))
  ELSE fgettok_from(io)

\* while (getc(fp) != EOF) ;
RECURSIVE drain(_)
drain_got(g) == IF g.st = "ok" THEN drain(g.io) ELSE g.io
drain(io) == drain_got(fgettok(io))

\* tar tokens: an entry header, and one line of an entry's body
TarHdr(type, path, length, n) ==
  [k |-> "hdr", type |-> type, path |-> path, length |-> length, n |-> n]
Line(str) == [k |-> "line", s |-> str]

\* void tarhead_init(struct tarhead *th, FILE *fp).  left < 0: no entry
\* bounds what tarhead_gets reads (a flat index)
tarhead_init == [NoTh EXCEPT !.left = -1]

\* int tarhead_next(struct tarhead *th): 1 with the entry's type, path and
\* length; 0 at the end of the stream; -1 on a read error
tarhead_next_got(g, t) ==
  IF g.st = "eof" THEN [io |-> g.io, th |-> [t EXCEPT !.eof = TRUE], ret |-> 0]
  ELSE IF g.st = "err" \/ g.tok.k # "hdr"
  THEN [io |-> g.io, th |-> t, ret |-> -1]
  ELSE [io |-> g.io,
        th |-> [t EXCEPT !.type = g.tok.type, !.path = g.tok.path,
                         !.length = g.tok.length, !.left = g.tok.n],
        ret |-> 1]

tarhead_next(io, t) ==
  IF t.eof THEN [io |-> io, th |-> t, ret |-> 0]
  ELSE tarhead_next_got(fgettok(io), t)

\* void tarhead_skip(struct tarhead *th): the rest of the entry's body
RECURSIVE tarhead_skip(_, _)
tarhead_skip_got(g, t) ==
  IF g.st # "ok" THEN [io |-> g.io, th |-> [t EXCEPT !.eof = TRUE, !.left = 0]]
  ELSE tarhead_skip(g.io, [t EXCEPT !.left = @ - 1])

tarhead_skip(io, t) ==
  IF t.left <= 0 \/ t.eof THEN [io |-> io, th |-> t]
  ELSE tarhead_skip_got(fgettok(io), t)

\* size_t tarhead_gets(th, &line, &line_alloc): the next line of the body and
\* its length with the newline; 0 at the end of the body.  The result is
\* unsigned: a failed read also gives 0
tarhead_gets_got(g, t) ==
  IF g.st # "ok" \/ g.tok.k # "line"
  THEN [io |-> g.io, th |-> [t EXCEPT !.eof = TRUE, !.left = 0], l |-> 0,
        line |-> <<>>]
  ELSE [io |-> g.io,
        th |-> [t EXCEPT !.left = IF @ > 0 THEN @ - 1 ELSE @],
        l |-> Len(g.tok.s) + 1, line |-> g.tok.s]

tarhead_gets(io, t) ==
  IF t.eof \/ t.left = 0 THEN [io |-> io, th |-> t, l |-> 0, line |-> <<>>]
  ELSE tarhead_gets_got(fgettok(io), t)

---------------------------------------------------------------------------
(* repo_add_apk_pkg: one line of .PKGINFO, and the code after the loop *)

K_pkgname == <<"p", "k", "g", "n", "a", "m", "e", " ", "=", " ">>
K_pkgver == <<"p", "k", "g", "v", "e", "r", " ", "=", " ">>
K_pkgdesc == <<"p", "k", "g", "d", "e", "s", "c", " ", "=", " ">>
K_url == <<"u", "r", "l", " ", "=", " ">>
K_builddate == <<"b", "u", "i", "l", "d", "d", "a", "t", "e", " ", "=", " ">>
K_packager == <<"p", "a", "c", "k", "a", "g", "e", "r", " ", "=", " ">>
K_size == <<"s", "i", "z", "e", " ", "=", " ">>
K_arch == <<"a", "r", "c", "h", " ", "=", " ">>
K_license == <<"l", "i", "c", "e", "n", "s", "e", " ", "=", " ">>
K_origin == <<"o", "r", "i", "g", "i", "n", " ", "=", " ">>
K_depend == <<"d", "e", "p", "e", "n", "d", " ", "=", " ">>
K_provides == <<"p", "r", "o", "v", "i", "d", "e", "s", " ", "=", " ">>
K_install_if == <<"i", "n", "s", "t", "a", "l", "l", "_", "i", "f", " ", "=", " ">>

\* s->name = pool_str2id(pool, text, 1), and the same for evr and arch
set_name(i, s) == [i.pool EXCEPT !.solvables[s].name = i.id]
set_evr(i, s) == [i.pool EXCEPT !.solvables[s].evr = i.id]
set_arch(i, s) == [i.pool EXCEPT !.solvables[s].arch = i.id]

\* repodata_set_id(data, handle, SOLVABLE_SOURCENAME, pool_str2id(...))
set_sourcename(i, s) == repodata_set(i.pool, s, "sourcename", IdAttr(i.id))

\* the origin field of either dialect: lines 280-287 and 447-454
origin(p, s, text) ==
  IF p.solvables[s].name # 0 /\ text = pool_id2str(p, p.solvables[s].name)
  THEN repodata_set(p, s, "sourcename", VoidAttr)
  ELSE set_sourcename(pool_str2id(p, text), s)

\* the fields of a .PKGINFO line: lines 259-293
pkg_field(p, s, line) ==
  LET val(key) == Drop(line, Len(key))
      is(key) == IsPrefix(key, line)
  IN
  IF is(K_pkgname) THEN set_name(pool_str2id(p, val(K_pkgname)), s)
  ELSE IF is(K_pkgver) THEN set_evr(pool_str2id(p, val(K_pkgver)), s)
  ELSE IF is(K_pkgdesc)
  THEN repodata_set(repodata_set(p, s, "summary", StrAttr(val(K_pkgdesc))),
                    s, "description", StrAttr(val(K_pkgdesc)))
  ELSE IF is(K_url) THEN repodata_set(p, s, "url", StrAttr(val(K_url)))
  ELSE IF is(K_builddate)
  THEN repodata_set(p, s, "buildtime", NumAttr(strtoull(val(K_builddate))))
  ELSE IF is(K_packager)
  THEN repodata_set(p, s, "packager", StrAttr(val(K_packager)))
  ELSE IF is(K_size)
  THEN repodata_set(p, s, "installsize", NumAttr(strtoull(val(K_size))))
  ELSE IF is(K_arch) THEN set_arch(pool_str2id(p, val(K_arch)), s)
  ELSE IF is(K_license) THEN repodata_add(p, s, "license", val(K_license))
  ELSE IF is(K_origin) THEN origin(p, s, val(K_origin))
  ELSE IF is(K_depend)
  THEN add_deps(p, s, "SOLVABLE_REQUIRES", val(K_depend))
  ELSE IF is(K_provides)
  THEN add_deps(p, s, "SOLVABLE_PROVIDES", val(K_provides))
  ELSE IF is(K_install_if)
  THEN add_deps(p, s, "SOLVABLE_SUPPLEMENTS", val(K_install_if))
  ELSE p

\* the body of the while ((l = tarhead_gets(...)) > 0) loop, lines 252-293.
\* line: the text without its newline
pkg_line(p, lc, line) ==
  [pool |-> IF line = <<>> \/ Head(line) = "#" THEN p
            ELSE pkg_field(p, lc.s, line),
   loc |-> [lc EXCEPT
              !.pkgidchk.data = IF lc.pkgidchk.on
                                THEN @ \o line \o <<"\n">> ELSE @,
              \* the keys exclude each other, so the else-if chain reaches
              \* the origin branch for every line that starts with its key
              !.haveorigin = IF IsPrefix(K_origin, line) THEN 1 ELSE @]]

\* repodata_set_*, when cond holds
set_if(cond, p, handle, key, val) ==
  IF cond THEN repodata_set(p, handle, key, val) ELSE p

\* s->provides = repo_addid_dep(repo, s->provides, pool_rel2id(...), 0)
self_provide(r, s) ==
  [r.pool EXCEPT !.solvables[s].provides = repo_addid_dep(@, r.id)]

\* lines 310-313: the self-provide and the default source name
pkg_named(p, s, haveorigin) ==
  IF p.solvables[s].name # 0
  THEN set_if(haveorigin = 0,
              self_provide(pool_rel2id(p, p.solvables[s].name,
                                       p.solvables[s].evr, REL_EQ), s),
              s, "sourcename", VoidAttr)
  ELSE p

\* lines 306-313: the defaults of arch and evr, then the above
pkg_defaults(p, s, haveorigin) ==
  pkg_named([p EXCEPT !.solvables[s].arch = IF @ = 0 THEN ARCH_NOARCH ELSE @,
                      !.solvables[s].evr = IF @ = 0 THEN ID_EMPTY ELSE @],
            s, haveorigin)

\* lines 314-329: the two checksums and the location
pkg_attrs(p, lc) ==
  set_if("REPO_NO_LOCATION" \notin lc.flags,
         set_if(lc.q1chk.on,
                set_if(lc.pkgidchk.on, p, lc.s, "pkgid",
                       ChkAttr("REPOKEY_TYPE_MD5", lc.pkgidchk.data)),
                lc.s, "hdrid", ChkAttr("REPOKEY_TYPE_SHA1", lc.q1chk.data)),
         lc.s, "location", StrAttr(<<"f", "n">>))

\* a variant of the end of repo_add_apk_pkg, with the nameless record left in the repo
pkg_finish_keep(p, lc) ==
  [pool |-> IF lc.s # 0 /\ p.solvables[lc.s].name = 0
            THEN pool_error(p, "package has no name")
            ELSE p,
   loc |-> [lc EXCEPT !.s = 0, !.q1chk.on = FALSE, !.pkgidchk.on = FALSE],
   ret |-> 0]

\* lines 299-337: what is left of repo_add_apk_pkg after fclose(fp)
pkg_finish(p, lc) ==
  IF lc.s # 0 /\ p.solvables[lc.s].name = 0
  THEN [pool |-> repo_free_solvable(pool_error(p, "package has no name"),
                                    lc.s),
        loc |-> [lc EXCEPT !.s = 0, !.q1chk.on = FALSE, !.pkgidchk.on = FALSE],
        ret |-> 0]
  ELSE IF lc.s # 0
  THEN [pool |-> pkg_attrs(pkg_defaults(p, lc.s, lc.haveorigin), lc),
        loc |-> [lc EXCEPT !.q1chk.on = FALSE, !.pkgidchk.on = FALSE],
        ret |-> lc.s]
  ELSE [pool |-> p,
        loc |-> [lc EXCEPT !.q1chk.on = FALSE, !.pkgidchk.on = FALSE],
        ret |-> 0]

\* line 242: th.length > 10 * 1024 * 1024
MaxPkgInfo == 10485760

\* a variant of the size check taken one byte too early
oversized_ge(length) == length >= MaxPkgInfo

oversized(length) == length > MaxPkgInfo

---------------------------------------------------------------------------
(* apk_process_index: one round of its for (;;) loop *)

\* lines 402-409: the same defaults as lines 306-313
idx_named(p, s, haveorigin) ==
  IF p.solvables[s].name # 0
  THEN set_if(haveorigin = 0,
              self_provide(pool_rel2id(p, p.solvables[s].name,
                                       p.solvables[s].evr, REL_EQ), s),
              s, "sourcename", VoidAttr)
  ELSE p

idx_defaults(p, s, haveorigin) ==
  idx_named([p EXCEPT !.solvables[s].arch = IF @ = 0 THEN ARCH_NOARCH ELSE @,
                      !.solvables[s].evr = IF @ = 0 THEN ID_EMPTY ELSE @],
            s, haveorigin)

\* a variant of finish old solvable, keeping a record that has no name
idx_finish_old_keep(p, lc, l, line) ==
  IF lc.s # 0 /\ (l = 0 \/ (l = 1 /\ line = <<>>))
  THEN [pool |-> idx_defaults(p, lc.s, lc.haveorigin),
        loc |-> [lc EXCEPT !.s = 0]]
  ELSE [pool |-> p, loc |-> lc]

\* a variant of finish old solvable, freeing the first record of the repository
idx_finish_old_first(p, lc, l, line) ==
  IF lc.s # 0 /\ (l = 0 \/ (l = 1 /\ line = <<>>))
  THEN [pool |-> IF p.solvables[lc.s].name = 0
                 THEN repo_free_solvable(p, 1)
                 ELSE idx_defaults(p, lc.s, lc.haveorigin),
        loc |-> [lc EXCEPT !.s = 0]]
  ELSE [pool |-> p, loc |-> lc]

\* lines 396-413: finish old solvable.  l: what tarhead_gets returned, the
\* newline counted; line: the text without the newline
idx_finish_old(p, lc, l, line) ==
  IF lc.s # 0 /\ (l = 0 \/ (l = 1 /\ line = <<>>))
  THEN [pool |-> IF p.solvables[lc.s].name = 0
                 THEN repo_free_solvable(p, lc.s)
                 ELSE idx_defaults(p, lc.s, lc.haveorigin),
        loc |-> [lc EXCEPT !.s = 0]]
  ELSE [pool |-> p, loc |-> lc]

\* lines 428-462: the fields of an index line
idx_field(p, s, line) ==
  LET c == line[1]
      val == Drop(line, 2)
  IN
  IF c = "P" THEN set_name(pool_str2id(p, val), s)
  ELSE IF c = "V" THEN set_evr(pool_str2id(p, val), s)
  ELSE IF c = "T"
  THEN repodata_set(repodata_set(p, s, "summary", StrAttr(val)),
                    s, "description", StrAttr(val))
  ELSE IF c = "U" THEN repodata_set(p, s, "url", StrAttr(val))
  ELSE IF c = "t" THEN repodata_set(p, s, "buildtime", NumAttr(strtoull(val)))
  ELSE IF c = "I"
  THEN repodata_set(p, s, "installsize", NumAttr(strtoull(val)))
  ELSE IF c = "A" THEN set_arch(pool_str2id(p, val), s)
  ELSE IF c = "L" THEN repodata_add(p, s, "license", val)
  ELSE IF c = "o" THEN origin(p, s, val)
  ELSE IF c = "D" THEN add_deps(p, s, "SOLVABLE_REQUIRES", val)
  ELSE IF c = "p" THEN add_deps(p, s, "SOLVABLE_PROVIDES", val)
  ELSE IF c = "i" THEN add_deps(p, s, "SOLVABLE_SUPPLEMENTS", val)
  ELSE IF c = "C" THEN apk_add_hdrid(p, s, val)
  ELSE p

\* lines 423-427: the record of the block is opened by its first field
idx_opened(a, p, lc) ==
  [pool |-> a.pool,
   loc |-> [lc EXCEPT !.s = a.id, !.haveorigin = 0,
                      !.snap = [solvables |-> p.solvables, attrs |-> p.attrs]]]

idx_open(p, lc) ==
  IF lc.s = 0 THEN idx_opened(repo_add_solvable(p), p, lc)
  ELSE [pool |-> p, loc |-> lc]

idx_fielded(o, line) ==
  [pool |-> idx_field(o.pool, o.loc.s, line),
   loc |-> [o.loc EXCEPT !.haveorigin = IF line[1] = "o" THEN 1 ELSE @]]

\* lines 418-462: a line that is not the end of the body
idx_line(p, lc, line) ==
  IF Len(line) < 2 \/ line[2] # ":" THEN [pool |-> p, loc |-> lc]
  ELSE idx_fielded(idx_open(p, lc), line)

---------------------------------------------------------------------------
(* Package files *)

\* most lines in the .PKGINFO of a generated package file
MaxLines == 3

T_a == <<"a">>
T_b == <<"b">>

PkgLineSet ==
  {K_pkgname \o T_a, K_pkgname \o T_b, K_pkgname, K_pkgver \o <<"1">>,
   K_arch \o <<"x">>, K_origin \o T_a, <<"#">>}

PkgBodies == UNION {[1..n -> PkgLineSet] : n \in 0..MaxLines}

RECURSIVE ByteLen(_)
ByteLen(lines) ==
  IF lines = <<>> THEN 0 ELSE Len(Head(lines)) + 1 + ByteLen(Tail(lines))

\* a tar entry: its header and the lines of its body
Entry(type, path, length, lines) ==
  <<TarHdr(type, path, length, Len(lines))>>
    \o [i \in 1..Len(lines) |-> Line(lines[i])]

PkgInfo(lines) == Entry(1, ".PKGINFO", ByteLen(lines), lines)

\* an .apk: the signature segment, the control segment (a tar), the data
\* segment, each a gzip member of its own
ApkFile(tar) ==
  CleanFile(<<Compress(<<[k |-> "sig"]>>), Compress(tar),
              Compress(<<[k |-> "data"]>>)>>, RawBuf)

Body0 == <<K_pkgname \o T_a, K_pkgver \o <<"1">>, K_origin \o T_b>>
Body1 == <<K_pkgname \o T_b, K_url \o <<"u">>>>
Other == Entry(1, ".SIGN", 2, <<<<"x">>>>)

\* tars that differ in their entries rather than in the lines of .PKGINFO
TarShapes ==
  {<<>>,
   Other,
   Other \o PkgInfo(Body0),
   PkgInfo(Body0) \o Other,
   PkgInfo(Body0) \o PkgInfo(Body1),
   Entry(2, ".PKGINFO", ByteLen(Body0), Body0) \o PkgInfo(Body1),
   Entry(1, ".PKGINFO", MaxPkgInfo, Body0),
   Entry(1, ".PKGINFO", MaxPkgInfo + 1, Body0),
   Entry(1, ".PKGINFO", MaxPkgInfo + 1, Body0) \o PkgInfo(Body1)}

\* files the system refuses to open or to wrap
Refused(f) ==
  {[f EXCEPT !.openfails = TRUE, !.fault = "open"],
   [f EXCEPT !.initfails = TRUE, !.fault = "init"],
   [f EXCEPT !.cookiefails = TRUE, !.fault = "cookie"]}

FaultBases ==
  {ApkFile(PkgInfo(Body0)),
   ApkFile(PkgInfo(<<K_pkgver \o <<"1">>, K_pkgname \o T_a>>))}

PkgFiles ==
  {ApkFile(PkgInfo(b)) : b \in PkgBodies}
    \cup {ApkFile(t) : t \in TarShapes}
    \cup UNION {Faulty(f) \cup Refused(f) : f \in FaultBases}

PkgFlagSets ==
  {{}, {"APK_ADD_WITH_HDRID", "APK_ADD_WITH_PKGID", "REPO_NO_LOCATION"}}

---------------------------------------------------------------------------
(* Index files *)

\* most lines of a generated flat index
MaxIdxLines == 4

I_Pa == <<"P", ":", "a">>
I_Pb == <<"P", ":", "b">>
I_P == <<"P", ":">>
I_V1 == <<"V", ":", "1">>
I_oa == <<"o", ":", "a">>
I_Ax == <<"A", ":", "x">>

\* <<>> is the blank line that ends a block
IdxLineSet == {I_Pa, I_Pb, I_P, I_V1, I_oa, I_Ax, <<>>}

IdxBodies == UNION {[1..n -> IdxLineSet] : n \in 0..MaxIdxLines}

Flat(lines) == [i \in 1..Len(lines) |-> Line(lines[i])]

ApkIndex(lines) == Entry(1, "APKINDEX", ByteLen(lines), lines)

Idx0 == <<I_Pa, I_V1>>
Idx1 == <<I_V1, <<>>, <<"x">>, I_Pb, I_oa>>

\* index archives that differ in their entries
IdxShapes ==
  {<<>>,
   Entry(1, "DESCRIPTION", 2, <<<<"d">>>>),
   Entry(1, "DESCRIPTION", 2, <<<<"d">>>>) \o ApkIndex(Idx0),
   ApkIndex(Idx0) \o ApkIndex(Idx1),
   ApkIndex(Idx1) \o Entry(1, "DESCRIPTION", 2, <<I_Pb>>),
   Entry(2, "APKINDEX", ByteLen(Idx0), Idx0) \o ApkIndex(Idx1)}

\* what a caller hands to repo_add_apk_repo: the tokens fp delivers and flags
IdxInputs ==
  {[toks |-> Flat(b), flags |-> {"APK_ADD_INDEX"}] : b \in IdxBodies}
    \cup {[toks |-> t, flags |-> {}] : t \in IdxShapes}

---------------------------------------------------------------------------
(* repo_add_apk_pkg, step by step *)

Io == [fp |-> fp, z |-> z, q1 |-> loc.q1chk.data]

Recs(p) == [solvables |-> p.solvables, attrs |-> p.attrs]

\* fclose(fp): the cookie's close function is apkz_close
fclose(f, zs, rs) ==
  [fp |-> [f EXCEPT !.open = FALSE], z |-> apkz_close(zs, rs).z,
   res |-> apkz_close(zs, rs).res]

\* lines 199-216: open the file, the adapter and the stream.  free() of a
\* pointer that malloc never returned is undefined: crash says whether the
\* allocator aborts the process there
PkgOpen(f, flags, crash) ==
  /\ pc = "idle"
  /\ file' = f
  /\ h' = h
  /\ th' = NoTh
  /\ loc' = [NoLoc EXCEPT !.call = "pkg", !.flags = flags,
                          !.pre = Recs(pool), !.snap = Recs(pool)]
  /\ \E o \in {apkz_open([res EXCEPT !.fd = "open"], f.initfails)} :
     IF f.openfails
     THEN /\ pool' = pool_error(pool, "open")
          /\ UNCHANGED <<z, fp, res>>
          /\ ret' = 0
          /\ pc' = "done"
     ELSE IF ~o.z.alloc
     THEN /\ z' = o.z
          /\ fp' = fp
          /\ IF crash
             THEN /\ pc' = "aborted"
                  /\ res' = o.res
                  /\ UNCHANGED <<pool, ret>>
             ELSE /\ pool' = pool_error(pool, "open")
                  /\ res' = [o.res EXCEPT !.closes = @ + 1, !.fd = "closed"]
                  /\ ret' = 0
                  /\ pc' = "done"
     ELSE IF f.cookiefails
     THEN /\ pool' = pool_error(pool, "open")
          /\ z' = apkz_close(o.z, o.res).z
          /\ res' = apkz_close(o.z, o.res).res
          /\ fp' = fp
          /\ ret' = 0
          /\ pc' = "done"
     ELSE /\ z' = o.z
          /\ res' = o.res
          /\ fp' = [NoFp EXCEPT !.open = TRUE, !.src = "z"]
          /\ pc' = "drain"
          /\ UNCHANGED <<pool, ret>>

\* lines 218-220: skip signatures
PkgDrain ==
  /\ pc = "drain"
  /\ \E d \in {drain(Io)} :
       /\ fp' = d.fp
       /\ z' = d.z
       /\ loc' = [loc EXCEPT !.drained = IF d.fp.err THEN "err" ELSE "eof"]
  /\ pc' = "reset"
  /\ UNCHANGED <<file, h, th, pool, res, ret>>

\* lines 221-234: on to the control segment
PkgReset ==
  /\ pc = "reset"
  /\ \E r \in {apkz_reset(z)} :
     IF r.ret # 1
     THEN /\ pool' = pool_error(pool, "unexpected EOF")
          /\ \E c \in {fclose(fp, r.z, res)} :
               /\ fp' = c.fp
               /\ z' = c.z
               /\ res' = c.res
          /\ ret' = 0
          /\ pc' = "done"
          /\ UNCHANGED <<loc, th>>
     ELSE /\ z' = [r.z EXCEPT !.readcb = "APK_ADD_WITH_HDRID" \in loc.flags]
          /\ loc' = [loc EXCEPT !.q1chk = [on |-> "APK_ADD_WITH_HDRID"
                                                    \in loc.flags,
                                           data |-> <<>>]]
          /\ fp' = [fp EXCEPT !.eof = FALSE, !.err = FALSE]
          /\ th' = tarhead_init
          /\ pc' = "next"
          /\ UNCHANGED <<pool, res, ret>>
  /\ UNCHANGED <<file, h>>

\* a variant of pkg_skips that looks at the entry only
pkg_skips_entry(t, s) == t.type # 1 \/ t.path # ".PKGINFO"

\* line 237: the entry is passed over; s is 0 until a record was opened
pkg_skips(t, s) == t.type # 1 \/ t.path # ".PKGINFO" \/ s # 0

\* lines 235-249: the next entry of the control segment
PkgNext ==
  /\ pc = "next"
  /\ \E n \in {tarhead_next(Io, th)} :
     IF n.ret <= 0
     THEN /\ fp' = n.io.fp
          /\ z' = n.io.z
          /\ th' = n.th
          /\ loc' = [loc EXCEPT !.q1chk.data = n.io.q1]
          /\ pool' = pool
          /\ pc' = "finish"
     ELSE IF pkg_skips(n.th, loc.s)
     THEN \E k \in {tarhead_skip(n.io, n.th)} :
          /\ fp' = k.io.fp
          /\ z' = k.io.z
          /\ th' = k.th
          /\ loc' = [loc EXCEPT !.q1chk.data = k.io.q1]
          /\ pool' = pool
          /\ pc' = "next"
     ELSE IF oversized(n.th.length)
     THEN /\ fp' = n.io.fp
          /\ z' = n.io.z
          /\ th' = n.th
          /\ loc' = [loc EXCEPT !.q1chk.data = n.io.q1]
          /\ pool' = pool_error(pool, "oversized .PKGINFO")
          /\ pc' = "finish"
     ELSE /\ fp' = n.io.fp
          /\ z' = n.io.z
          /\ th' = n.th
          /\ loc' = [loc EXCEPT !.q1chk.data = n.io.q1,
                                !.s = repo_add_solvable(pool).id,
                                !.snap = Recs(pool),
                                !.pkgidchk = [on |-> "APK_ADD_WITH_PKGID"
                                                       \in loc.flags,
                                              data |-> <<>>]]
          /\ pool' = repo_add_solvable(pool).pool
          /\ pc' = "lines"
  /\ UNCHANGED <<file, h, res, ret>>

\* lines 250-294: one line of .PKGINFO, or the end of its body
PkgLine ==
  /\ pc = "lines"
  /\ \E g \in {tarhead_gets(Io, th)} :
     /\ fp' = g.io.fp
     /\ z' = g.io.z
     /\ th' = g.th
     /\ IF g.l > 0
        THEN \E d \in {pkg_line(pool, [loc EXCEPT !.q1chk.data = g.io.q1,
                                                  !.nlines = @ + 1], g.line)} :
             /\ pool' = d.pool
             /\ loc' = d.loc
             /\ pc' = "lines"
        ELSE /\ pool' = pool
             /\ loc' = [loc EXCEPT !.q1chk.data = g.io.q1]
             /\ pc' = "next"
  /\ UNCHANGED <<file, h, res, ret>>

\* lines 296-337: close, finish or drop the record, return
PkgFinish ==
  /\ pc = "finish"
  /\ \E c \in {fclose(fp, z, res)} :
       /\ fp' = c.fp
       /\ z' = c.z
       /\ res' = c.res
  /\ \E f \in {pkg_finish(pool, loc)} :
       /\ pool' = f.pool
       /\ loc' = f.loc
       /\ ret' = f.ret
  /\ pc' = "done"
  /\ UNCHANGED <<file, h, th>>

---------------------------------------------------------------------------
(* repo_add_apk_repo, step by step *)

\* lines 473-477: the call, up to the first read
IdxCall(in) ==
  /\ pc = "idle"
  /\ loc' = [NoLoc EXCEPT !.call = "idx", !.flags = in.flags,
                          !.input = in.toks,
                          !.pre = Recs(pool), !.snap = Recs(pool)]
  /\ fp' = [NoFp EXCEPT !.open = TRUE, !.src = "mem", !.buf = in.toks]
  /\ th' = tarhead_init
  /\ pc' = IF "APK_ADD_INDEX" \in in.flags THEN "index" ELSE "entries"
  /\ UNCHANGED <<file, z, h, pool, res, ret>>

\* lines 480-486: the next entry of an index archive; 487-488 at its end
IdxEntry ==
  /\ pc = "entries"
  /\ \E n \in {tarhead_next(Io, th)} :
     IF n.ret <= 0
     THEN /\ fp' = n.io.fp
          /\ th' = n.th
          /\ ret' = 0
          /\ pc' = "done"
     ELSE IF n.th.type # 1 \/ n.th.path # "APKINDEX"
     THEN \E k \in {tarhead_skip(n.io, n.th)} :
          /\ fp' = k.io.fp
          /\ th' = k.th
          /\ ret' = ret
          /\ pc' = "entries"
     ELSE /\ fp' = n.io.fp
          /\ th' = n.th
          /\ ret' = ret
          /\ pc' = "index"
  /\ loc' = [loc EXCEPT !.s = 0, !.haveorigin = 0]
  /\ UNCHANGED <<file, z, h, pool, res>>

\* lines 393-464: one round of apk_process_index's loop; at the break the
\* flat index returns (lines 487-488), the archive goes on to its next entry
IdxLine ==
  /\ pc = "index"
  /\ \E g \in {tarhead_gets(Io, th)} :
     /\ fp' = g.io.fp
     /\ th' = g.th
     /\ \E c \in {idx_finish_old(pool, loc, g.l, g.line)} :
        IF g.l = 0
        THEN /\ pool' = c.pool
             /\ loc' = c.loc
             /\ IF "APK_ADD_INDEX" \in loc.flags
                THEN pc' = "done" /\ ret' = 0
                ELSE pc' = "entries" /\ ret' = ret
        ELSE \E d \in {idx_line(c.pool, c.loc, g.line)} :
             /\ pool' = d.pool
             /\ loc' = d.loc
             /\ pc' = "index"
             /\ ret' = ret
  /\ UNCHANGED <<file, z, h, res>>

---------------------------------------------------------------------------
(* The repository before the call, and the two entry points *)

NoFile == CleanFile(<<>>, RawBuf)

\* a repository that already holds one record, as an earlier index left it
named(i) == set_name(i, 1)
RepoBefore ==
  idx_defaults(named(pool_str2id(repo_add_solvable(EmptyPool).pool, <<"z">>)),
               1, 0)

Init ==
  /\ pc = "idle"
  /\ file = NoFile
  /\ z = NoZ
  /\ h = NoH
  /\ fp = NoFp
  /\ th = NoTh
  /\ loc = NoLoc
  /\ pool = RepoBefore
  /\ res = NoRes
  /\ ret = 0

\* a caller starts one call on an idle repository
PkgCall ==
  /\ pc = "idle"
  /\ \E f \in PkgFiles, flags \in PkgFlagSets, crash \in BOOLEAN :
       PkgOpen(f, flags, crash)

IdxStart ==
  /\ pc = "idle"
  /\ \E in \in IdxInputs : IdxCall(in)

Next ==
  \/ PkgCall
  \/ PkgDrain
  \/ PkgReset
  \/ PkgNext
  \/ PkgLine
  \/ PkgFinish
  \/ IdxStart
  \/ IdxEntry
  \/ IdxLine

Spec == Init /\ [][Next]_vars
---------------------------------------------------------------------------
(* add_deps on its own: one line of one kind, for a record just opened *)

\* the lines: up to MaxPieces pieces put end to end
MaxPieces == 4

DepPieces ==
  { <<"a">>, <<"!">>, <<"b", ">", "=", "1">>, <<"c", "~", "2">>, <<"<">>,
    <<" ">>, <<"\t">> }

RECURSIVE DepLines(_)
DepLines(n) ==
  IF n = 0 THEN {<<>>}
  ELSE DepLines(n - 1) \cup {l \o q : l \in DepLines(n - 1), q \in DepPieces}

\* the kinds the two callers pass
DepKinds ==
  {"SOLVABLE_PROVIDES", "SOLVABLE_REQUIRES", "SOLVABLE_SUPPLEMENTS"}

\* s = repo_add_solvable(repo) of the caller, on the repository before
Opened == repo_add_solvable(RepoBefore)

InitD ==
  /\ pc = "deps"
  /\ file = NoFile
  /\ z = NoZ
  /\ h = NoH
  /\ fp = NoFp
  /\ th = NoTh
  /\ \E what \in DepKinds, line \in DepLines(MaxPieces) :
       loc = [NoLoc EXCEPT !.call = what, !.s = Opened.id, !.input = line]
  /\ pool = Opened.pool
  /\ res = NoRes
  /\ ret = 0

\* add_deps(repo, s, what, line)
DepsApply ==
  /\ pc = "deps"
  /\ pool' = add_deps(pool, loc.s, loc.call, loc.input)
  /\ pc' = "depsdone"
  /\ UNCHANGED <<file, z, h, fp, th, loc, res, ret>>

NextD == DepsApply

SpecD == InitD /\ [][NextD]_vars
---------------------------------------------------------------------------
(* apk_add_hdrid on its own: one checksum token, for a record just opened *)

\* the digests: bytes built from the first HVals values of ByteVals
HVals == 4
ByteVals == <<0, 255, 1, 128, 62, 251>>

Digest(n, a, b, c) == [i \in 1..n |-> (<<a, b, c>>[(i % 3) + 1] + 37 * i) % 256]

Digests(n) ==
  {Digest(n, ByteVals[a], ByteVals[b], ByteVals[c]) : a, b, c \in 1..HVals}

\* base64 with padding (RFC 4648), as the index writer encodes a digest
B64Char(n) == B64[(n % 64) + 1]

RECURSIVE b64_encode(_)
b64_encode(bytes) ==
  IF bytes = <<>> THEN <<>>
  ELSE IF Len(bytes) = 1
  THEN <<B64Char(bytes[1] \div 4), B64Char((bytes[1] % 4) * 16), "=", "=">>
  ELSE IF Len(bytes) = 2
  THEN <<B64Char(bytes[1] \div 4),
         B64Char((bytes[1] % 4) * 16 + bytes[2] \div 16),
         B64Char((bytes[2] % 16) * 4), "=">>
  ELSE <<B64Char(bytes[1] \div 4),
         B64Char((bytes[1] % 4) * 16 + bytes[2] \div 16),
         B64Char((bytes[2] % 16) * 4 + bytes[3] \div 64),
         B64Char(bytes[3] % 64)>> \o b64_encode(Drop(bytes, 3))

\* the token of a digest under the prefix Q1 or Q2, and tokens that differ
\* from it in one respect
HdridTokens(q, body) ==
  { <<"Q", q>> \o body,
    <<"X", q>> \o body,
    <<"Q", "3">> \o body,
    <<"Q", "1">> \o [body EXCEPT ![Len(body)] = "A"],
    <<"Q", "2">> \o [body EXCEPT ![Len(body)] = "A"],
    <<"Q", q>> \o SubSeq(body, 1, Len(body) - 1),
    <<"Q", q>> \o body \o <<"A">>,
    <<"Q", q>> \o body \o SubSeq(body, 1, 16),
    <<"Q", q>> \o [body EXCEPT ![1] = "-"],
    <<"Q", q>> \o [body EXCEPT ![10] = "="],
    <<"Q", q>> \o [body EXCEPT ![Len(body) - 1] = "="],
    <<"Q", q>>, <<"Q">>, <<>> }

InitH ==
  /\ pc = "hdrid"
  /\ file = NoFile
  /\ z = NoZ
  /\ h = NoH
  /\ fp = NoFp
  /\ th = NoTh
  /\ \E n \in {20, 32} : \E d \in Digests(n) :
       \E tok \in HdridTokens(IF n = 20 THEN "1" ELSE "2", b64_encode(d)) :
         loc = [call |-> "hdrid", s |-> Opened.id, digest |-> d, input |-> tok]
  /\ pool = Opened.pool
  /\ res = NoRes
  /\ ret = 0

\* apk_add_hdrid(data, s - pool->solvables, token)
HdridApply ==
  /\ pc = "hdrid"
  /\ pool' = apk_add_hdrid(pool, loc.s, loc.input)
  /\ pc' = "hdriddone"
  /\ UNCHANGED <<file, z, h, fp, th, loc, res, ret>>

NextH == HdridApply

SpecH == InitH /\ [][NextH]_vars

---------------------------------------------------------------------------
(* What the inputs say, read off the input itself *)

\* the decompressed content of one gzip member
Decompress(seg) == [j \in 1..(Len(seg) - 2) |-> seg[j + 1].v]

\* the tar of the control segment of the package file
Control == Decompress(file.segs[2])

\* the position in toks of the first regular entry named .PKGINFO, or 0
RECURSIVE FirstInfoFrom(_, _)
FirstInfoFrom(toks, i) ==
  IF i > Len(toks) THEN 0
  ELSE IF toks[i].k = "hdr" /\ toks[i].type = 1 /\ toks[i].path = ".PKGINFO"
  THEN i
  ELSE FirstInfoFrom(toks, i + 1)

FirstInfo == FirstInfoFrom(Control, 1)

\* the lines of that entry
InfoLines == [j \in 1..Control[FirstInfo].n |-> Control[FirstInfo + j].s]

HasKey(block, key) == \E i \in 1..Len(block) : IsPrefix(key, block[i])

LastKey(block, key) ==
  LET i == CHOOSE i \in 1..Len(block) :
             /\ IsPrefix(key, block[i])
             /\ \A j \in (i + 1)..Len(block) : ~IsPrefix(key, block[j])
  IN  Drop(block[i], Len(key))

\* the lines of the index the call is given: of the flat index, or of the
\* APKINDEX entries of the archive, a blank line standing between two entries
RECURSIVE IdxText(_, _, _)
IdxText(toks, in, acc) ==
  IF toks = <<>> THEN acc
  ELSE IF Head(toks).k = "hdr"
  THEN IdxText(Tail(toks),
               Head(toks).type = 1 /\ Head(toks).path = "APKINDEX",
               Append(acc, <<>>))
  ELSE IdxText(Tail(toks), in,
               IF in THEN Append(acc, Head(toks).s) ELSE acc)

\* the blank-line-separated blocks of a sequence of lines
RECURSIVE Split(_, _, _)
Split(lines, cur, acc) ==
  IF lines = <<>> THEN Append(acc, cur)
  ELSE IF Head(lines) = <<>> THEN Split(Tail(lines), <<>>, Append(acc, cur))
  ELSE Split(Tail(lines), Append(cur, Head(lines)), acc)

F_P == <<"P", ":">>
F_V == <<"V", ":">>
F_A == <<"A", ":">>
F_o == <<"o", ":">>

IsNamed(block) == HasKey(block, F_P)

\* the blocks of the index that hold a P: line, in the order of the input
NamedBlocks ==
  SelectSeq(Split(IdxText(loc.input, "APK_ADD_INDEX" \in loc.flags, <<>>),
                  <<>>, <<>>),
            IsNamed)

\* the text of the name, version and architecture of record i
View(i) ==
  [name |-> pool.strings[pool.solvables[i].name],
   evr |-> pool.strings[pool.solvables[i].evr],
   arch |-> pool.strings[pool.solvables[i].arch]]

\* what a block says they are
Said(block, kname, kver, karch) ==
  [name |-> LastKey(block, kname),
   evr |-> IF HasKey(block, kver) THEN LastKey(block, kver) ELSE <<>>,
   arch |-> IF HasKey(block, karch) THEN LastKey(block, karch)
            ELSE <<"n", "o", "a", "r", "c", "h">>]

\* the source name the rule gives a record of the block
SaidSource(block, kname, korigin) ==
  IF ~HasKey(block, korigin) \/ LastKey(block, korigin) = LastKey(block, kname)
  THEN [t |-> "void"]
  ELSE [t |-> "id", id |-> StrId(pool, LastKey(block, korigin))]

\* record i has a name, a version, an architecture and provides itself
Finalized(i) ==
  /\ pool.solvables[i].repo
  /\ pool.solvables[i].name > 0
  /\ pool.strings[pool.solvables[i].name] # <<>>
  /\ pool.solvables[i].evr > 0
  /\ pool.solvables[i].arch > 0
  /\ \E j \in 1..Len(pool.solvables[i].provides) :
       /\ pool.solvables[i].provides[j] < 0
       /\ pool.rels[0 - pool.solvables[i].provides[j]] =
            [name |-> pool.solvables[i].name, evr |-> pool.solvables[i].evr,
             flags |-> {"EQ"}]

\* the handle of the i-th record the call added
New(i) == Len(loc.pre.solvables) + i

---------------------------------------------------------------------------
(* C1 .. C10 *)

\* C1: in repo_add_apk_pkg a failed read of the compressed stream (apkz_read
\* returning -1, seen by stdio as the FILE's error indicator), while the
\* signature segment is drained or while the control segment is read, makes
\* the call return 0 and leaves the repository without a record of the file.
C1_ReadErrorIsFatal ==
  (pc = "done" /\ loc.call = "pkg" /\ (loc.drained = "err" \/ fp.err))
    => (ret = 0 /\ pool.solvables = loc.pre.solvables)

\* C2: source-name rule in both dialects: the source-name attribute of every
\* finalized record is the valueless marker when the block has no origin
\* field or its origin text is the record's final name, and the id of the
\* origin text otherwise, whatever the order of the lines.
C2_SourceNameRule ==
  pc = "done" =>
    /\ (loc.call = "pkg" /\ file.fault = "none" /\ ret # 0)
         => pool.attrs[ret].sourcename =
              SaidSource(InfoLines, K_pkgname, K_origin)
    /\ (loc.call = "idx"
          /\ Len(pool.solvables) = Len(loc.pre.solvables) + Len(NamedBlocks))
         => \A i \in 1..Len(NamedBlocks) :
              pool.attrs[New(i)].sourcename =
                SaidSource(NamedBlocks[i], F_P, F_o)

\* C3: after any archive ingest or index ingest every record in the
\* repository has a non-empty name, a version (the empty string when the
\* block had no version line), an architecture (noarch when it had no arch
\* line) and a provides list holding the relation name = version.
C3_FinalizedRecords ==
  pc = "done" =>
    /\ \A i \in 1..Len(pool.solvables) : Finalized(i)
    /\ (loc.call = "pkg" /\ file.fault = "none" /\ ret # 0)
         => /\ HasKey(InfoLines, K_pkgver) \/ pool.solvables[ret].evr = ID_EMPTY
            /\ HasKey(InfoLines, K_arch)
                 \/ pool.solvables[ret].arch = ARCH_NOARCH
    /\ (loc.call = "idx"
          /\ Len(pool.solvables) = Len(loc.pre.solvables) + Len(NamedBlocks))
         => \A i \in 1..Len(NamedBlocks) :
              /\ HasKey(NamedBlocks[i], F_V)
                   \/ pool.solvables[New(i)].evr = ID_EMPTY
              /\ HasKey(NamedBlocks[i], F_A)
                   \/ pool.solvables[New(i)].arch = ARCH_NOARCH

\* C4: a container of N segments read through apkz_read, each segment until
\* the read returns 0 and then apkz_reset, gives for every buffer size and
\* every chunking of the raw reads the content of segment 1, then 2, .. then
\* N, nothing lost, repeated or taken from a neighbour; apkz_reset returns 1
\* before each of the segments 2..N and 0 after the last.
C4_SegmentsInOrder ==
  (file.fault = "none" /\ pc \in {"zrun", "zend", "zclosed"}) =>
    /\ h.last >= 0
    /\ Len(h.outs) <= Len(file.segs)
    /\ \A i \in 1..Len(h.outs) : h.outs[i] = Decompress(file.segs[i])
    /\ Len(h.outs) < Len(file.segs)
         => IsPrefix(h.cur, Decompress(file.segs[Len(h.outs) + 1]))
    /\ (Len(h.outs) < Len(file.segs) /\ h.called /\ h.last = 0)
         => h.cur = Decompress(file.segs[Len(h.outs) + 1])
    /\ Len(h.outs) = Len(file.segs) => h.cur = <<>>
    /\ \A i \in 1..Len(h.rets) :
         h.rets[i] = IF i < Len(file.segs) THEN 1 ELSE 0
    /\ pc \in {"zend", "zclosed"} => Len(h.outs) = Len(file.segs)

C4_Witness ==
  /\ pc = "zclosed"
  /\ file.fault = "none"
  /\ file.chunk = 2
  /\ h.outs = <<SegContent(1, 2), SegContent(2, 1), SegContent(3, 2)>>
  /\ h.rets = <<1, 1, 0>>

\* C5: with a callback registered before the first read of a segment, the
\* bytes passed to it up to the segment's end marker are that segment's
\* compressed bytes, all of them and in order (so their counts sum to its
\* compressed length), for every buffer size; raw bytes already buffered
\* from the following segment are never passed.  The registration may follow
\* the drain and reset of an earlier segment, as in repo_add_apk_pkg.
C5_CallbackCoversSegment ==
  (file.fault = "none" /\ z.alloc /\ h.cbseg > 0
     /\ Len(h.outs) < Len(file.segs)) =>
    /\ IsPrefix(Flatten(h.cbs),
                Flatten(SubSeq(file.segs, h.cbseg, Len(h.outs) + 1)))
    /\ z.eof = 1 =>
         Flatten(h.cbs) = Flatten(SubSeq(file.segs, h.cbseg, Len(h.outs) + 1))

C5_Witness ==
  /\ file.fault = "none"
  /\ z.alloc
  /\ z.eof = 1
  /\ h.cbseg = 2
  /\ Len(h.outs) = 1
  /\ Len(file.segs) = 3
  /\ z.avail_in # <<>>
  /\ Len(h.cbs) > 1
  /\ Flatten(h.cbs) = file.segs[2]

\* C6: index ingestion leaves exactly one record per block that holds a P:
\* line, in block order, each with the name, version and architecture its
\* own block says; a block without a name leaves no record and no error and
\* changes no later record; the call returns 0 whatever the input.
C6_IndexBlocks ==
  (pc = "done" /\ loc.call = "idx") =>
    /\ ret = 0
    /\ pool.errors = <<>>
    /\ Len(pool.solvables) = Len(loc.pre.solvables) + Len(NamedBlocks)
    /\ \A i \in 1..Len(NamedBlocks) :
         /\ pool.solvables[New(i)].repo
         /\ pool.solvables[New(i)].name > 0
         /\ View(New(i)) = Said(NamedBlocks[i], F_P, F_V, F_A)

C6_Witness ==
  /\ pc = "done"
  /\ loc.call = "idx"
  /\ loc.input = Flat(<<I_V1, I_oa, <<>>, I_Pb>>)
  /\ Len(pool.solvables) = Len(loc.pre.solvables) + 1
  /\ ret = 0

\* C7: when repo_add_apk_pkg has read .PKGINFO to its end and no pkgname
\* line set a name, the call reports 'package has no name', returns 0 and
\* removes the record it was building: the repository is as before the call.
C7_NoNameFails ==
  [][(pc = "finish" /\ loc.s # 0 /\ pool.solvables[loc.s].name = 0)
       => /\ pc' = "done"
          /\ ret' = 0
          /\ pool'.errors = Append(pool.errors, "package has no name")
          /\ pool'.solvables = loc.pre.solvables
          /\ pool'.attrs = loc.pre.attrs]_vars

C7_Witness ==
  /\ pc = "done"
  /\ loc.call = "pkg"
  /\ file.fault = "none"
  /\ loc.nlines = MaxLines
  /\ ret = 0
  /\ pool.errors = <<"package has no name">>
  /\ pool.solvables = loc.pre.solvables

\* C8: when the first .PKGINFO entry declares more than 10 MiB the call
\* reports the oversized error, returns 0, at no point creates a record,
\* reads no line of it and writes no attribute or checksum; a declared
\* length of exactly 10 MiB is accepted.
C8_OversizedRefused ==
  (loc.call = "pkg" /\ file.fault = "none" /\ FirstInfo > 0) =>
    /\ Control[FirstInfo].length > 10 * 1024 * 1024
         => /\ loc.s = 0
            /\ loc.nlines = 0
            /\ loc.pkgidchk = [on |-> FALSE, data |-> <<>>]
            /\ pool.solvables = loc.pre.solvables
            /\ pool.attrs = loc.pre.attrs
            /\ pc = "done"
                 => ret = 0 /\ pool.errors = <<"oversized .PKGINFO">>
    /\ (Control[FirstInfo].length = 10 * 1024 * 1024 /\ pc = "done")
         => /\ pool.errors = <<>>
            /\ ret = New(1)
            /\ loc.nlines = Control[FirstInfo].n

C8_Witness ==
  /\ pc = "done"
  /\ loc.call = "pkg"
  /\ file.fault = "none"
  /\ FirstInfo > 0
  /\ Control[FirstInfo].length = 10 * 1024 * 1024 + 1
  /\ "APK_ADD_WITH_PKGID" \in loc.flags
  /\ pool.errors = <<"oversized .PKGINFO">>
  /\ ret = 0

\* C9: on every exit of repo_add_apk_pkg taken after the file was opened the
\* descriptor is closed exactly once, an initialized decompressor state and
\* the adapter are released exactly once, and nothing is released that was
\* not allocated; the call returns.
C9_ReleasedOnce ==
  /\ pc # "aborted"
  /\ (pc = "done" /\ loc.call = "pkg" /\ res.fd # "none")
       => /\ res.fd = "closed"
          /\ res.closes = 1
          /\ res.zend = res.zinit
          /\ res.zfree = res.zalloc
          /\ res.badfree = 0

\* C10: ingestion is append-only: the records the repository held before the
\* call keep their handles, fields and order throughout the call; a step
\* that takes a record away leaves the repository as it was before that
\* record was opened; a failed archive ingest leaves it as before the call.
C10_AppendOnly ==
  [][/\ loc'.call # "none"
          => /\ IsPrefix(loc'.pre.solvables, pool'.solvables)
             /\ IsPrefix(loc'.pre.attrs, pool'.attrs)
     /\ Len(pool'.solvables) < Len(pool.solvables)
          => /\ pool'.solvables = loc.snap.solvables
             /\ pool'.attrs = loc.snap.attrs
     /\ (pc' = "done" /\ loc'.call = "pkg" /\ ret' = 0)
          => /\ pool'.solvables = loc'.pre.solvables
             /\ pool'.attrs = loc'.pre.attrs]_vars

C10_Witness ==
  /\ pc = "done"
  /\ loc.call = "idx"
  /\ loc.input = Flat(<<I_Pa, <<>>, I_V1, <<>>>>)
  /\ loc.pre.solvables # <<>>
  /\ Len(pool.solvables) = Len(loc.pre.solvables) + 1
  /\ loc.snap.solvables = pool.solvables

---------------------------------------------------------------------------
(* What a dependency line says, read off the line itself *)

NonBlank(t, i) == t[i] \notin {" ", "\t"}

\* where the atoms (the longest runs without a blank) of t begin
AtomStarts(t) ==
  {i \in 1..Len(t) : NonBlank(t, i) /\ (i = 1 \/ ~NonBlank(t, i - 1))}

AtomEnd(t, i) ==
  CHOOSE j \in i..Len(t) :
    /\ \A k \in i..j : NonBlank(t, k)
    /\ (j = Len(t) \/ ~NonBlank(t, j + 1))

\* the atoms of t from position i on, in the order of the line
RECURSIVE AtomsFrom(_, _)
AtomsFrom(t, i) ==
  IF i > Len(t) THEN <<>>
  ELSE IF i \in AtomStarts(t)
  THEN <<SubSeq(t, i, AtomEnd(t, i))>> \o AtomsFrom(t, AtomEnd(t, i) + 1)
  ELSE AtomsFrom(t, i + 1)

Atoms(t) == AtomsFrom(t, 1)

\* the name of an atom: what stands before its first operator character
OpChars == {"<", ">", "=", "~"}
FirstOp(a) ==
  IF \E i \in 1..Len(a) : a[i] \in OpChars
  THEN CHOOSE i \in 1..Len(a) :
         a[i] \in OpChars /\ \A j \in 1..(i - 1) : a[j] \notin OpChars
  ELSE Len(a) + 1
AtomName(a) == SubSeq(a, 1, FirstOp(a) - 1)

Negated(a) == a[1] = "!"

\* the name a relation id stands for
DepName(id) ==
  IF id > 0 THEN pool.strings[id] ELSE pool.strings[pool.rels[0 - id].name]
DepNames(ids) == [i \in 1..Len(ids) |-> DepName(ids[i])]

\* ids without the bare empty name
Named(ids) == SelectSeq(ids, LAMBDA id : id # ID_EMPTY)

Map(f(_), s) == [i \in 1..Len(s) |-> f(s[i])]

DepRec == pool.solvables[loc.s]
DepAtoms == Atoms(loc.input)

\* C11: on a require line every atom gives one id, in the order of the line:
\* an atom that begins with '!' goes to the conflicts under the name after
\* the '!', every other atom goes to the requires, so a '!' moves its own
\* atom only; on a provide or supplement line no atom goes to the conflicts
\* and a '!' stays part of the name.  (The bare empty name that blanks at
\* the end of a line add is set aside here.)
C11_BangReroutesOneAtom ==
  pc = "depsdone" =>
    /\ loc.call = "SOLVABLE_REQUIRES" =>
         /\ DepNames(Named(DepRec.requires)) =
              Map(AtomName, SelectSeq(DepAtoms, LAMBDA a : ~Negated(a)))
         /\ DepNames(DepRec.conflicts) =
              Map(LAMBDA a : AtomName(Tail(a)),
                  SelectSeq(DepAtoms, Negated))
         /\ DepRec.provides = <<>>
    /\ loc.call = "SOLVABLE_PROVIDES" =>
         /\ DepNames(Named(DepRec.provides)) = Map(AtomName, DepAtoms)
         /\ DepRec.conflicts = <<>>
         /\ DepRec.requires = <<>>
    /\ loc.call = "SOLVABLE_SUPPLEMENTS" =>
         /\ DepRec.conflicts = <<>>
         /\ DepRec.requires = <<>>
         /\ DepRec.provides = <<>>

\* a require line "!a b>=1": the first atom alone is a conflict
C11_Witness ==
  /\ pc = "depsdone"
  /\ loc.call = "SOLVABLE_REQUIRES"
  /\ loc.input = <<"!", "a", " ", "b", ">", "=", "1">>
  /\ DepNames(DepRec.requires) = << <<"b">> >>
  /\ DepNames(DepRec.conflicts) = << <<"a">> >>

---------------------------------------------------------------------------
(* What a checksum token says, read off the token itself *)

HdridRec == pool.attrs[loc.s].hdrid

\* C12: the token "Q1" + base64 of a 20-byte digest d stores a SHA-1
\* checksum whose bytes are d, the token "Q2" + base64 of a 32-byte digest d
\* a SHA-256 checksum whose bytes are d
C12_ChecksumRoundTrip ==
  pc = "hdriddone" =>
    /\ (Len(loc.digest) = 20
          /\ loc.input = <<"Q", "1">> \o b64_encode(loc.digest))
         => HdridRec = ChkAttr("REPOKEY_TYPE_SHA1", loc.digest)
    /\ (Len(loc.digest) = 32
          /\ loc.input = <<"Q", "2">> \o b64_encode(loc.digest))
         => HdridRec = ChkAttr("REPOKEY_TYPE_SHA256", loc.digest)

\* a 32-byte digest with bytes above and below 128 came back from its token
C12_Witness ==
  /\ pc = "hdriddone"
  /\ Len(loc.digest) = 32
  /\ \E i, j \in 1..32 : loc.digest[i] >= 128 /\ loc.digest[j] < 128
  /\ Len(loc.input) = 46
  /\ loc.input = <<"Q", "2">> \o b64_encode(loc.digest)
  /\ HdridRec = ChkAttr("REPOKEY_TYPE_SHA256", loc.digest)

\* the tokens the format admits: Q1 and 28 characters, or Q2 and 44, all of
\* the base64 alphabet, '=' allowed as the last character only
BodyOk(b) ==
  \A i \in 1..Len(b) :
    \/ \E k \in 1..Len(B64) : B64[k] = b[i]
    \/ b[i] = "=" /\ i = Len(b)

WellFormed(t) ==
  \/ Len(t) = 30 /\ t[1] = "Q" /\ t[2] = "1" /\ BodyOk(Drop(t, 2))
  \/ Len(t) = 46 /\ t[1] = "Q" /\ t[2] = "2" /\ BodyOk(Drop(t, 2))

\* C13: a checksum is written for a well-formed token and for no other
\* token: SHA-1 for Q1 with length 30, SHA-256 for Q2 with length 46
C13_OnlyWellFormedWrites ==
  pc = "hdriddone" =>
    /\ HdridRec # NoAttr <=> WellFormed(loc.input)
    /\ HdridRec # NoAttr =>
         HdridRec.type = IF loc.input[2] = "1" THEN "REPOKEY_TYPE_SHA1"
                         ELSE "REPOKEY_TYPE_SHA256"

\* the operator of an atom: from its first operator character on, the run of
\* '<', '>', '=' or the single '~'
OpEnd(a) ==
  IF a[FirstOp(a)] = "~" THEN FirstOp(a)
  ELSE CHOOSE j \in FirstOp(a)..Len(a) :
         /\ \A k \in FirstOp(a)..j : a[k] \in {"<", ">", "="}
         /\ (j = Len(a) \/ a[j + 1] \notin {"<", ">", "="})

FlagOf(c) == IF c = "<" THEN "LT" ELSE IF c = ">" THEN "GT" ELSE "EQ"

\* what an atom says: a bare name, or name, flags and version
AtomSaid(a) ==
  IF FirstOp(a) > Len(a) THEN [name |-> a]
  ELSE [name |-> AtomName(a),
        flags |-> {FlagOf(a[k]) : k \in FirstOp(a)..OpEnd(a)},
        evr |-> SubSeq(a, OpEnd(a) + 1, Len(a))]

\* what a relation id stands for
DepView(id) ==
  IF id > 0 THEN [name |-> pool.strings[id]]
  ELSE [name |-> pool.strings[pool.rels[0 - id].name],
        flags |-> pool.rels[0 - id].flags,
        evr |-> pool.strings[pool.rels[0 - id].evr]]
DepViews(ids) == [i \in 1..Len(ids) |-> DepView(ids[i])]

\* C14: an atom "name OP version", OP a run of '<', '>', '=' or the
\* character '~', gives the relation of the text before the operator, the
\* flags of the operator's characters ('~' as '=') and the text after the
\* operator up to the next blank: the version holds no character of the
\* operator, for '~' as for '='
C14_OperatorSplitsAtom ==
  pc = "depsdone" =>
    /\ loc.call = "SOLVABLE_PROVIDES" =>
         DepViews(Named(DepRec.provides)) = Map(AtomSaid, DepAtoms)
    /\ loc.call = "SOLVABLE_REQUIRES" =>
         /\ DepViews(Named(DepRec.requires)) =
              Map(AtomSaid, SelectSeq(DepAtoms, LAMBDA a : ~Negated(a)))
         /\ DepViews(DepRec.conflicts) =
              Map(LAMBDA a : AtomSaid(Tail(a)), SelectSeq(DepAtoms, Negated))

\* C15: on a provide or require line the number of ids appended is the
\* number of atoms of the line, whatever blanks stand before, between or
\* after them; a line of blanks only, or an empty line, appends nothing
C15_OneIdPerAtom ==
  (pc = "depsdone" /\ loc.call \in {"SOLVABLE_PROVIDES", "SOLVABLE_REQUIRES"})
    => Len(DepRec.provides) + Len(DepRec.requires) + Len(DepRec.conflicts)
         = Len(DepAtoms)

\* the relations an AND-combination was built from, oldest first
RECURSIVE Leaves(_)
Leaves(id) ==
  IF id < 0 /\ pool.rels[0 - id].flags = REL_AND
  THEN Leaves(pool.rels[0 - id].evr) \o <<pool.rels[0 - id].name>>
  ELSE <<id>>

\* C16: a supplement line appends nothing to the provides, requires and
\* conflicts and at most one id to the supplements: none for a line without
\* atoms, the atom's own relation for one atom, the AND-combination of the
\* relations of all atoms for several
C16_SupplementsCombined ==
  (pc = "depsdone" /\ loc.call = "SOLVABLE_SUPPLEMENTS") =>
    /\ DepRec.provides = <<>>
    /\ DepRec.requires = <<>>
    /\ DepRec.conflicts = <<>>
    /\ Len(DepRec.supplements) <= 1
    /\ DepAtoms = <<>> => DepRec.supplements = <<>>
    /\ DepAtoms # <<>> =>
         /\ Len(DepRec.supplements) = 1
         /\ DepNames(Leaves(DepRec.supplements[1])) = Map(AtomName, DepAtoms)

---------------------------------------------------------------------------
(* The adapter at the end of a segment and at the end of the file *)

\* the step is one call of apkz_read
ReadStep == pc = "zrun" /\ pc' = "zrun" /\ h'.called /\ ~h'.fresh

\* C17: once a read has reached the end marker of a segment (eof is set),
\* every read before the next apkz_reset returns 0, reads nothing from the
\* descriptor, makes no callback and leaves the adapter, with the input it
\* has buffered, as it was; and a read that returned 0 has eof set
C17_EndIsSticky ==
  /\ [](pc = "zrun" /\ h.called /\ h.last = 0 => z.eof = 1)
  /\ [][(ReadStep /\ z.eof = 1) =>
          /\ h'.last = 0
          /\ h'.reads = 0
          /\ h'.cbs = h.cbs
          /\ h'.cur = h.cur
          /\ z' = z]_vars

\* a read made after the end marker, with a callback registered and bytes of
\* the next segment in the buffer
C17_Witness ==
  /\ pc = "zrun"
  /\ h.ateof
  /\ h.last = 0
  /\ h.reads = 0
  /\ z.eof = 1
  /\ z.readcb
  /\ z.avail_in # <<>>
  /\ h.cbs # <<>>

\* the call read at the end of the file: its last read() returned 0
HitEnd ==
  /\ h'.reads >= 1
  /\ (h'.reads - 1) * file.chunk >= Len(file.raw) - z.pos

---------------------------------------------------------------------------
(* The record of a package file and its first .PKGINFO *)

\* what the line handlers and the end of the call make of the lines alone
RECURSIVE InfoRead(_, _, _)
InfoNext(d, lines) == InfoRead(d.pool, d.loc, lines)
InfoRead(p, lc, lines) ==
  IF lines = <<>> THEN pkg_finish(p, lc)
  ELSE InfoNext(pkg_line(p, lc, Head(lines)), Tail(lines))

InfoOnly ==
  InfoRead(Opened.pool,
           [NoLoc EXCEPT !.call = "pkg", !.flags = loc.flags, !.s = Opened.id,
                         !.pkgidchk = [on |-> "APK_ADD_WITH_PKGID"
                                                \in loc.flags,
                                       data |-> <<>>]],
           InfoLines)

\* the repository without the checksum over the whole control segment
NoHdrid(p) ==
  [p EXCEPT !.attrs = [i \in 1..Len(p.attrs) |->
                         [p.attrs[i] EXCEPT !.hdrid = NoAttr]]]

\* C19: a call on an intact package file adds at most one record; the
\* record, with its relations, attributes and pkgid checksum, is the one the
\* lines of the first regular entry named .PKGINFO give by themselves,
\* whatever other entries and later .PKGINFO entries the control segment
\* holds; without such an entry the repository stays as it was.  (The
\* hdrid, the SHA-1 over the whole compressed control segment, is not part
\* of the comparison.)
C19_FirstPkgInfoOnly ==
  (pc = "done" /\ loc.call = "pkg" /\ file.fault = "none") =>
    /\ Len(pool.solvables) <= Len(loc.pre.solvables) + 1
    /\ FirstInfo = 0 => (pool = RepoBefore /\ ret = 0)
    /\ (FirstInfo > 0 /\ Control[FirstInfo].length <= 10 * 1024 * 1024) =>
         /\ NoHdrid(pool) = NoHdrid(InfoOnly.pool)
         /\ ret = InfoOnly.ret

\* a control segment with two .PKGINFO entries: the record is the first's
C19_Witness ==
  /\ pc = "done"
  /\ loc.call = "pkg"
  /\ file.fault = "none"
  /\ Control = PkgInfo(Body0) \o PkgInfo(Body1)
  /\ "APK_ADD_WITH_PKGID" \in loc.flags
  /\ ret = New(1)
  /\ Len(pool.solvables) = Len(loc.pre.solvables) + 1
  /\ View(ret).name = T_a
  /\ pool.attrs[ret].url = NoAttr
  /\ pool.attrs[ret].pkgid.t = "chk"

====
